---- MODULE Spec2Model ----
(***************************************************************************)
(* ogg2caf: conversion of an Ogg-encapsulated Opus stream into a CAF       *)
(* container (src/src/lib.rs).                                             *)
(*                                                                         *)
(* Three specifications:                                                   *)
(*   Spec      convert(), one action per statement of the function         *)
(*   SpecHead  OpusHead::read applied to bounded byte strings              *)
(*   SpecTags  OpusTags::read applied to bounded byte strings              *)
(*                                                                         *)
(* Bytes are the integers 0..255, a byte string is a sequence of bytes and *)
(* a read cursor is the number of bytes consumed so far.                   *)
(***************************************************************************)
EXTENDS Integers, Sequences, FiniteSets, TLC

VARIABLES
    \* ---- convert() ----
    packets,            \* the logical packets the demuxer finds in the source
    failAt,             \* the read_packet call that returns Err (0: none does)
    addFailAt,          \* the add_packet call that returns Err (0: none does)
    sinkFailAt,         \* the write to the sink that returns Err (0: none does)
    eager,              \* whether the writer emits the file header when opened
    pc,                 \* position in convert()
    rpos,               \* packets the demuxer has handed out
    id_header_packet,   \* lib.rs:12
    opus_head,          \* lib.rs:20
    audio_description,  \* lib.rs:26
    writer,             \* lib.rs:37, the PacketWriter's state
    sink,               \* what the byte sink has accepted, chunk by chunk
    calls,              \* the PacketWriter methods called so far, in order
    err,                \* the Err convert() returned
    \* ---- OpusHead::read ----
    h_full,             \* the well-formed header the input was cut from
    h_data,             \* the bytes behind the reader
    h_pc,
    h_res,              \* Result<OpusHead>, with the cursor on success
    h_next,             \* outcome of one more read_exact of 1 byte
    \* ---- OpusTags::read ----
    t_in,               \* the vendor string and comments that were encoded
    t_full,             \* their encoding
    t_data,
    t_pc,
    t_res,
    t_next

cvars == <<packets, failAt, addFailAt, sinkFailAt, eager, pc, rpos,
           id_header_packet, opus_head, audio_description, writer, sink,
           calls, err>>
hvars == <<h_full, h_data, h_pc, h_res, h_next>>
tvars == <<t_in, t_full, t_data, t_pc, t_res, t_next>>
vars == <<cvars, hvars, tvars>>

----------------------------------------------------------------------------
(* Bounds of the model *)

MaxChannels == 2
MaxTrail == 2
MaxData == 2
MaxComments == 2

----------------------------------------------------------------------------
(* Byte-level read primitives: std::io::Read::read_exact and byteorder *)

Min(a, b) == IF a < b THEN a ELSE b

\* read_exact of n bytes at cursor cur succeeds iff n bytes remain
CanRead(data, cur, n) == cur + n <= Len(data)

Bytes(data, cur, n) == SubSeq(data, cur + 1, cur + n)

ReadU8(data, cur) == data[cur + 1]

ReadU16LE(data, cur) == data[cur + 1] + 256 * data[cur + 2]

ReadU32LE_BE(data, cur) ==
    16777216 * data[cur + 1] + 65536 * data[cur + 2]
        + 256 * data[cur + 3] + data[cur + 4]
ReadU32LE(data, cur) ==
    data[cur + 1] + 256 * data[cur + 2]
        + 65536 * data[cur + 3] + 16777216 * data[cur + 4]

ReadI16LE_Unsigned(data, cur) == data[cur + 1] + 256 * data[cur + 2]
ReadI16LE(data, cur) ==
    LET u == data[cur + 1] + 256 * data[cur + 2]
    IN  IF u >= 32768 THEN u - 65536 ELSE u

UnexpectedEof == "UnexpectedEof"

NoVal == [none |-> TRUE]

\* Err(e). The cursor after a failed read is unspecified (-1).
Fail(e) == [ok |-> FALSE, err |-> e, val |-> NoVal, cur |-> 0 - 1]
Done(v, c) == [ok |-> TRUE, err |-> "", val |-> v, cur |-> c]

----------------------------------------------------------------------------
(* OpusHead::read, lib.rs:61-99 *)

OpusHeadMagic == <<79, 112, 117, 115, 72, 101, 97, 100>>    \* b"OpusHead"

\* lib.rs:85, the limit of the take() the mapping table is skipped with
MappingTakeOneByte(channel_count) == channel_count
MappingTake(channel_count) == 8 * channel_count

\* lib.rs:84-87: io::copy of a take(): reads until the limit or the end of the
\* data, whichever comes first, and a short input is no error
SkipMapping(data, cur, channel_count) ==
    cur + Min(MappingTake(channel_count), Len(data) - cur)

OpusHeadRead(data) ==
    IF ~CanRead(data, 0, 8) THEN Fail(UnexpectedEof)
    ELSE IF Bytes(data, 0, 8) # OpusHeadMagic THEN Fail("missing magic signature")
    ELSE IF ~CanRead(data, 8, 1) THEN Fail(UnexpectedEof)
    ELSE IF ReadU8(data, 8) # 1 THEN Fail("invalid version")
    ELSE IF ~CanRead(data, 9, 1) THEN Fail(UnexpectedEof)
    ELSE IF ~CanRead(data, 10, 2) THEN Fail(UnexpectedEof)
    ELSE IF ~CanRead(data, 12, 4) THEN Fail(UnexpectedEof)
    ELSE IF ~CanRead(data, 16, 2) THEN Fail(UnexpectedEof)
    ELSE IF ~CanRead(data, 18, 1) THEN Fail(UnexpectedEof)
    ELSE
      LET head == [channel_count          |-> ReadU8(data, 9),
                   preskip                |-> ReadU16LE(data, 10),
                   input_sample_rate      |-> ReadU32LE(data, 12),
                   output_gain            |-> ReadI16LE(data, 16),
                   channel_mapping_family |-> ReadU8(data, 18)]
      IN  IF head.channel_mapping_family # 0
          THEN IF ~CanRead(data, 19, 1) THEN Fail(UnexpectedEof)
               ELSE IF ~CanRead(data, 20, 1) THEN Fail(UnexpectedEof)
               ELSE Done(head, SkipMapping(data, 21, head.channel_count))
          ELSE Done(head, 19)

----------------------------------------------------------------------------
(* Inputs of OpusHead::read: encoded headers, cut short or followed by more *)

U16LE(x) == <<x % 256, x \div 256>>
U32LE(x) == <<x % 256, (x \div 256) % 256, (x \div 65536) % 256, x \div 16777216>>
I16LE(x) == U16LE(IF x < 0 THEN x + 65536 ELSE x)

Fill(n, b) == [i \in 1..n |-> b]

\* the layout of the identification header, with one table byte per channel
EncodeHead(f) ==
    OpusHeadMagic \o <<1, f.channel_count>> \o U16LE(f.preskip)
        \o U32LE(f.input_sample_rate) \o I16LE(f.output_gain)
        \o <<f.channel_mapping_family>>
        \o (IF f.channel_mapping_family # 0
            THEN <<1, 0>> \o Fill(f.channel_count, 7)
            ELSE <<>>)

HeadFields ==
    [channel_count          : 0..MaxChannels,
     preskip                : {0, 312, 65535},
     input_sample_rate      : {0, 48000},
     output_gain            : {0, 256, 0 - 1},
     channel_mapping_family : {0, 1}]

TestHead ==
    [channel_count |-> 2, preskip |-> 312, input_sample_rate |-> 48000,
     output_gain |-> 0, channel_mapping_family |-> 0]

Prefixes(s) == {SubSeq(s, 1, n) : n \in 0..Len(s)}

\* a header with its magic or its version byte damaged
Damaged(s) == {[s EXCEPT ![1] = 111], [s EXCEPT ![9] = 2]}

InitHead ==
    /\ h_full \in {EncodeHead(f) : f \in HeadFields}
    /\ h_data \in Prefixes(h_full \o Fill(MaxTrail, 9))
                    \cup (IF h_full = EncodeHead(TestHead)
                          THEN Damaged(h_full) ELSE {})
    /\ h_pc = "start"
    /\ h_res = NoVal
    /\ h_next = "none"

IdleHead ==
    /\ h_full = <<>>
    /\ h_data = <<>>
    /\ h_pc = "idle"
    /\ h_res = NoVal
    /\ h_next = "none"

\* lib.rs:148 (the test's call)
HeadRead ==
    /\ h_pc = "start"
    /\ h_res' = OpusHeadRead(h_data)
    /\ h_pc' = "parsed"
    /\ UNCHANGED <<h_full, h_data, h_next>>

\* lib.rs:155, after the unwrap of a successful read: read_exact of one byte
HeadReadAfter ==
    /\ h_pc = "parsed"
    /\ h_res.ok
    /\ h_next' = IF CanRead(h_data, h_res.cur, 1) THEN "byte" ELSE UnexpectedEof
    /\ h_pc' = "done"
    /\ UNCHANGED <<h_full, h_data, h_res>>

----------------------------------------------------------------------------
(* String::from_utf8, lib.rs:118 and lib.rs:126: the bytes are returned as  *)
(* they are when they are well-formed UTF-8, and an error otherwise         *)

IsCont(b) == b >= 128 /\ b <= 191

RECURSIVE ValidUtf8(_)
ValidUtf8(s) ==
    IF s = <<>> THEN TRUE
    ELSE
      LET b == s[1]
          n == Len(s)
          rest(k) == SubSeq(s, k + 1, n)
      IN  IF b <= 127 THEN ValidUtf8(rest(1))
          ELSE IF b >= 194 /\ b <= 223
            THEN n >= 2 /\ IsCont(s[2]) /\ ValidUtf8(rest(2))
          ELSE IF b >= 224 /\ b <= 239
            THEN /\ n >= 3
                 /\ IsCont(s[2]) /\ IsCont(s[3])
                 /\ (b = 224 => s[2] >= 160)
                 /\ (b = 237 => s[2] <= 159)
                 /\ ValidUtf8(rest(3))
          ELSE IF b >= 240 /\ b <= 244
            THEN /\ n >= 4
                 /\ IsCont(s[2]) /\ IsCont(s[3]) /\ IsCont(s[4])
                 /\ (b = 240 => s[2] >= 144)
                 /\ (b = 244 => s[2] <= 143)
                 /\ ValidUtf8(rest(4))
          ELSE FALSE

FromUtf8Error == "FromUtf8Error"

----------------------------------------------------------------------------
(* OpusTags::read, lib.rs:108-134 *)

OpusTagsMagic == <<79, 112, 117, 115, 84, 97, 103, 115>>    \* b"OpusTags"

\* lib.rs:115-118 and lib.rs:123-126: a 32-bit length, that many bytes, UTF-8
ReadString(data, cur) ==
    IF ~CanRead(data, cur, 4) THEN Fail(UnexpectedEof)
    ELSE
      LET len == ReadU32LE(data, cur)
      IN  IF ~CanRead(data, cur + 4, len) THEN Fail(UnexpectedEof)
          ELSE IF ~ValidUtf8(Bytes(data, cur + 4, len)) THEN Fail(FromUtf8Error)
          ELSE Done(Bytes(data, cur + 4, len), cur + 4 + len)

\* lib.rs:122-128, the loop over user_comments_count
RECURSIVE ReadComments(_, _, _, _)
ReadComments(data, cur, remaining, user_comments) ==
    IF remaining = 0 THEN Done(user_comments, cur)
    ELSE
      LET c == ReadString(data, cur)
      IN  IF ~c.ok THEN c
          ELSE ReadComments(data, c.cur, remaining - 1,
                            Append(user_comments, c.val))

OpusTagsRead(data) ==
    IF ~CanRead(data, 0, 8) THEN Fail(UnexpectedEof)
    ELSE IF Bytes(data, 0, 8) # OpusTagsMagic THEN Fail("missing magic signature")
    ELSE
      LET v == ReadString(data, 8)
      IN  IF ~v.ok THEN v
          ELSE IF ~CanRead(data, v.cur, 4) THEN Fail(UnexpectedEof)
          ELSE
            LET cs == ReadComments(data, v.cur + 4, ReadU32LE(data, v.cur), <<>>)
            IN  IF ~cs.ok THEN cs
                ELSE Done([vendor_string |-> v.val, user_comments |-> cs.val],
                          cs.cur)

----------------------------------------------------------------------------
(* Inputs of OpusTags::read *)

EncodeString(s) == U32LE(Len(s)) \o s

RECURSIVE EncodeStrings(_)
EncodeStrings(ss) ==
    IF ss = <<>> THEN <<>>
    ELSE EncodeString(Head(ss)) \o EncodeStrings(Tail(ss))

EncodeTags(t) ==
    OpusTagsMagic \o EncodeString(t.vendor_string)
        \o U32LE(Len(t.user_comments)) \o EncodeStrings(t.user_comments)

\* "", "La", U+00E9, a stray 0xFF, a lead byte without its continuation
VendorStrings == {<<>>, <<76, 97>>, <<195, 169>>, <<255>>, <<195>>}
\* "", "a=b", U+20AC, a stray continuation byte
CommentStrings == {<<>>, <<97, 61, 98>>, <<226, 130, 172>>, <<128>>}

SeqsUpTo(S, n) == UNION {[1..k -> S] : k \in 0..n}

TagsInputs ==
    [vendor_string : VendorStrings,
     user_comments : SeqsUpTo(CommentStrings, MaxComments)]

WellFormedTags(t) ==
    /\ ValidUtf8(t.vendor_string)
    /\ \A i \in 1..Len(t.user_comments) : ValidUtf8(t.user_comments[i])

InitTags ==
    /\ t_in \in TagsInputs
    /\ t_full = EncodeTags(t_in)
    /\ t_data \in Prefixes(t_full \o Fill(MaxTrail, 9))
                    \cup {[t_full EXCEPT ![5] = 72]}
    /\ t_pc = "start"
    /\ t_res = NoVal
    /\ t_next = "none"

IdleTags ==
    /\ t_in = NoVal
    /\ t_full = <<>>
    /\ t_data = <<>>
    /\ t_pc = "idle"
    /\ t_res = NoVal
    /\ t_next = "none"

\* lib.rs:168 (the test's call)
TagsRead ==
    /\ t_pc = "start"
    /\ t_res' = OpusTagsRead(t_data)
    /\ t_pc' = "parsed"
    /\ UNCHANGED <<t_in, t_full, t_data, t_next>>

\* lib.rs:175, after the unwrap of a successful read: read_exact of one byte
TagsReadAfter ==
    /\ t_pc = "parsed"
    /\ t_res.ok
    /\ t_next' = IF CanRead(t_data, t_res.cur, 1) THEN "byte" ELSE UnexpectedEof
    /\ t_pc' = "done"
    /\ UNCHANGED <<t_in, t_full, t_data, t_res>>

----------------------------------------------------------------------------
(* The collaborators of convert(): the Ogg demuxer, the CAF writer, the sink *)
(*                                                                         *)
(* The demuxer (ogg) and the writer (caf) are dependencies of the crate:   *)
(* convert() decides when they are called and with what, they decide what  *)
(* reaches the sink. The writer is modelled by the chunks of the container *)
(* it produces, and both of its possible policies are covered: the file    *)
(* header and the description written when the writer is opened (eager),   *)
(* or everything written by write_audio_data. Either way the sink is a     *)
(* std::io::Write: each write may fail, and what it accepted stays.        *)

\* ogg::PacketReader::read_packet, called at lib.rs:13, 16 and 43: the next
\* packet, None at the end of the stream, or an error
ReadPacket(stream, pos, failing) ==
    IF failing = pos + 1 THEN [kind |-> "err", data |-> <<>>]
    ELSE IF pos < Len(stream) THEN [kind |-> "some", data |-> stream[pos + 1]]
    ELSE [kind |-> "none", data |-> <<>>]

\* std::io::Write on the sink handed over at lib.rs:37: the chunks are written
\* one after the other, and a failed write keeps what was accepted before it
RECURSIVE WriteAll(_, _, _)
WriteAll(s, chunks, failing) ==
    IF chunks = <<>> THEN [ok |-> TRUE, sink |-> s]
    ELSE IF Len(s) + 1 = failing THEN [ok |-> FALSE, sink |-> s]
    ELSE WriteAll(Append(s, Head(chunks)), Tail(chunks), failing)

FileHeader == [tag |-> "caff"]
DescChunk(w) == [tag |-> "desc", description |-> w.description]
PaktChunk(w) == [tag |-> "pakt", priming_frames |-> w.priming_frames,
                 number_packets |-> Len(w.packets)]
DataChunk(w) == [tag |-> "data", packets |-> w.packets]

\* caf::writing::PacketWriter::new at lib.rs:37: what it writes at once
OpenChunks(w, e) == IF e THEN <<FileHeader, DescChunk(w)>> ELSE <<>>

\* caf::writing::PacketWriter::write_audio_data at lib.rs:46: the rest
FinalChunks(w, e) ==
    (IF e THEN <<>> ELSE <<FileHeader, DescChunk(w)>>)
        \o <<PaktChunk(w), DataChunk(w)>>

\* the complete container of a writer
Container(w) == <<FileHeader, DescChunk(w), PaktChunk(w), DataChunk(w)>>

NoWriter == [opened |-> FALSE]

\* lib.rs:44, add_packet(&packet.data, None)
AddPacketFront(w, data) == [w EXCEPT !.packets = <<data>> \o @]
AddPacket(w, data) == [w EXCEPT !.packets = Append(@, data)]

----------------------------------------------------------------------------
(* convert(), lib.rs:7-49 *)

DefaultSampleRate == 48000
FramesPerPacket == 960
MaxI32 == 2147483647

\* lib.rs:24, u32 as f64: every u32 is a float of the same value
U32AsF64(x) == x

\* lib.rs:40, u16 as i32
AsI16(x) == IF x % 65536 >= 32768 THEN (x % 65536) - 65536 ELSE x % 65536
AsI32(x) == IF x > MaxI32 THEN (x - MaxI32 - 1) - MaxI32 - 1 ELSE x

\* lib.rs:21-25
SampleRateUnchanged(head) == U32AsF64(head.input_sample_rate)
SampleRate(head) ==
    IF head.input_sample_rate = 0
    THEN DefaultSampleRate
    ELSE U32AsF64(head.input_sample_rate)

\* lib.rs:26-34
AudioDescription(head) ==
    [sample_rate        |-> SampleRate(head),
     format_id          |-> "opus",
     format_flags       |-> 0,
     bytes_per_packet   |-> 0,
     frames_per_packet  |-> FramesPerPacket,
     channels_per_frame |-> head.channel_count,
     bits_per_channel   |-> 0]

\* The streams: an identification header, a comment header, data packets, and
\* every stream that ends early
MappedHead ==
    [channel_count |-> 2, preskip |-> 32768, input_sample_rate |-> 44100,
     output_gain |-> 0 - 1, channel_mapping_family |-> 1]
MonoHead ==
    [channel_count |-> 1, preskip |-> 65535, input_sample_rate |-> 0,
     output_gain |-> 256, channel_mapping_family |-> 0]

IdPackets ==
    {EncodeHead(TestHead), EncodeHead(MappedHead), EncodeHead(MonoHead),
     SubSeq(EncodeHead(TestHead), 1, 12)}
        \cup Damaged(EncodeHead(TestHead))

TestTags == [vendor_string |-> <<76, 97>>, user_comments |-> << <<97, 61, 98>> >>]

CommentPackets == {EncodeTags(TestTags), <<1, 2, 3>>}

DataPayloads == {<<7>>, <<8, 9>>}

Streams ==
    {<<>>} \cup {<<i>> : i \in IdPackets}
        \cup {<<i, c>> \o d : i \in IdPackets, c \in CommentPackets,
                              d \in SeqsUpTo(DataPayloads, MaxData)}

InitConvert ==
    /\ packets \in Streams
    /\ failAt \in 0..(MaxData + 3)
    /\ addFailAt \in 0..MaxData
    /\ sinkFailAt \in 0..4
    /\ eager \in BOOLEAN
    /\ pc = "read_id"
    /\ rpos = 0
    /\ id_header_packet = <<>>
    /\ opus_head = NoVal
    /\ audio_description = NoVal
    /\ writer = NoWriter
    /\ sink = <<>>
    /\ calls = <<>>
    /\ err = ""

IdleConvert ==
    /\ packets = <<>>
    /\ failAt = 0
    /\ addFailAt = 0
    /\ sinkFailAt = 0
    /\ eager = FALSE
    /\ pc = "idle"
    /\ rpos = 0
    /\ id_header_packet = <<>>
    /\ opus_head = NoVal
    /\ audio_description = NoVal
    /\ writer = NoWriter
    /\ sink = <<>>
    /\ calls = <<>>
    /\ err = ""

env == <<packets, failAt, addFailAt, sinkFailAt, eager>>

\* return Err(e)
Return(e) == pc' = "err" /\ err' = e

\* lib.rs:12-14
ReadIdHeader ==
    /\ pc = "read_id"
    /\ LET r == ReadPacket(packets, rpos, failAt)
       IN  IF r.kind = "err"
           THEN Return("read_packet") /\ UNCHANGED <<rpos, id_header_packet>>
           ELSE IF r.kind = "none"
           THEN /\ Return("missing identification header packet")
                /\ UNCHANGED <<rpos, id_header_packet>>
           ELSE /\ id_header_packet' = r.data
                /\ rpos' = rpos + 1
                /\ pc' = "read_comment"
                /\ UNCHANGED err
    /\ UNCHANGED <<env, opus_head, audio_description, writer, sink, calls>>

\* lib.rs:15-17 with the packet checked by OpusTags::read
ReadCommentHeaderValidating ==
    /\ pc = "read_comment"
    /\ LET r == ReadPacket(packets, rpos, failAt)
       IN  IF r.kind = "err"
           THEN Return("read_packet") /\ UNCHANGED rpos
           ELSE IF r.kind = "none"
           THEN Return("missing comment header packet") /\ UNCHANGED rpos
           ELSE IF ~OpusTagsRead(r.data).ok
           THEN Return(OpusTagsRead(r.data).err) /\ rpos' = rpos + 1
           ELSE /\ rpos' = rpos + 1
                /\ pc' = "parse"
                /\ UNCHANGED err
    /\ UNCHANGED <<env, id_header_packet, opus_head, audio_description,
                   writer, sink, calls>>

\* lib.rs:15-17 with the identification header parsed before the read
ReadCommentHeaderParsingFirst ==
    /\ pc = "read_comment"
    /\ LET r == ReadPacket(packets, rpos, failAt)
       IN  IF ~OpusHeadRead(id_header_packet).ok
           THEN Return(OpusHeadRead(id_header_packet).err) /\ UNCHANGED rpos
           ELSE IF r.kind = "err"
           THEN Return("read_packet") /\ UNCHANGED rpos
           ELSE IF r.kind = "none"
           THEN Return("missing comment header packet") /\ UNCHANGED rpos
           ELSE /\ rpos' = rpos + 1
                /\ pc' = "parse"
                /\ UNCHANGED err
    /\ UNCHANGED <<env, id_header_packet, opus_head, audio_description,
                   writer, sink, calls>>

\* lib.rs:15-17: the packet is read and dropped
ReadCommentHeader ==
    /\ pc = "read_comment"
    /\ LET r == ReadPacket(packets, rpos, failAt)
       IN  IF r.kind = "err"
           THEN Return("read_packet") /\ UNCHANGED rpos
           ELSE IF r.kind = "none"
           THEN Return("missing comment header packet") /\ UNCHANGED rpos
           ELSE /\ rpos' = rpos + 1
                /\ pc' = "parse"
                /\ UNCHANGED err
    /\ UNCHANGED <<env, id_header_packet, opus_head, audio_description,
                   writer, sink, calls>>

\* lib.rs:20-34 with the sink written to before the header is parsed
ParseHeadAfterWriting ==
    /\ pc = "parse"
    /\ LET r == OpusHeadRead(id_header_packet)
       IN  IF ~r.ok
           THEN /\ Return(r.err)
                /\ sink' = WriteAll(sink, <<FileHeader>>, sinkFailAt).sink
                /\ UNCHANGED <<opus_head, audio_description>>
           ELSE /\ opus_head' = r.val
                /\ audio_description' = AudioDescription(r.val)
                /\ pc' = "open"
                /\ UNCHANGED <<err, sink>>
    /\ UNCHANGED <<env, rpos, id_header_packet, writer, calls>>

\* lib.rs:20-34
ParseHead ==
    /\ pc = "parse"
    /\ LET r == OpusHeadRead(id_header_packet)
       IN  IF ~r.ok
           THEN Return(r.err) /\ UNCHANGED <<opus_head, audio_description>>
           ELSE /\ opus_head' = r.val
                /\ audio_description' = AudioDescription(r.val)
                /\ pc' = "open"
                /\ UNCHANGED err
    /\ UNCHANGED <<env, rpos, id_header_packet, writer, sink, calls>>

\* lib.rs:37
OpenWriter ==
    /\ pc = "open"
    /\ calls' = Append(calls, "new")
    /\ LET w == [opened |-> TRUE, description |-> audio_description,
                 priming_frames |-> 0, packets |-> <<>>, finalized |-> 0]
           r == WriteAll(sink, OpenChunks(w, eager), sinkFailAt)
       IN  /\ sink' = r.sink
           /\ IF r.ok
              THEN writer' = w /\ pc' = "priming" /\ UNCHANGED err
              ELSE Return("write") /\ UNCHANGED writer
    /\ UNCHANGED <<env, rpos, id_header_packet, opus_head, audio_description>>

\* lib.rs:40
SetPrimingFrames ==
    /\ pc = "priming"
    /\ calls' = Append(calls, "set_priming_frames")
    /\ writer' = [writer EXCEPT !.priming_frames = AsI32(opus_head.preskip)]
    /\ pc' = "loop"
    /\ UNCHANGED <<env, rpos, id_header_packet, opus_head, audio_description,
                   sink, err>>

\* lib.rs:43-45, one turn of the loop
CopyPacket ==
    /\ pc = "loop"
    /\ LET r == ReadPacket(packets, rpos, failAt)
       IN  IF r.kind = "err"
           THEN Return("read_packet") /\ UNCHANGED <<rpos, writer, calls>>
           ELSE IF r.kind = "none"
           THEN pc' = "finalize" /\ UNCHANGED <<rpos, writer, calls, err>>
           ELSE /\ rpos' = rpos + 1
                /\ calls' = Append(calls, "add_packet")
                /\ IF addFailAt = Len(writer.packets) + 1
                   THEN Return("add_packet") /\ UNCHANGED writer
                   ELSE /\ writer' = AddPacket(writer, r.data)
                        /\ UNCHANGED <<pc, err>>
    /\ UNCHANGED <<env, id_header_packet, opus_head, audio_description, sink>>

\* lib.rs:46-48
WriteAudioData ==
    /\ pc = "finalize"
    /\ calls' = Append(calls, "write_audio_data")
    /\ LET r == WriteAll(sink, FinalChunks(writer, eager), sinkFailAt)
       IN  /\ sink' = r.sink
           /\ IF r.ok
              THEN /\ writer' = [writer EXCEPT !.finalized = @ + 1]
                   /\ pc' = "ok"
                   /\ UNCHANGED err
              ELSE Return("write") /\ UNCHANGED writer
    /\ UNCHANGED <<env, rpos, id_header_packet, opus_head, audio_description>>

----------------------------------------------------------------------------
(* The specifications *)

Init == InitConvert /\ IdleHead /\ IdleTags

Next ==
    \/ ReadIdHeader /\ UNCHANGED <<hvars, tvars>>
    \/ ReadCommentHeader /\ UNCHANGED <<hvars, tvars>>
    \/ ParseHead /\ UNCHANGED <<hvars, tvars>>
    \/ OpenWriter /\ UNCHANGED <<hvars, tvars>>
    \/ SetPrimingFrames /\ UNCHANGED <<hvars, tvars>>
    \/ CopyPacket /\ UNCHANGED <<hvars, tvars>>
    \/ WriteAudioData /\ UNCHANGED <<hvars, tvars>>

Spec == Init /\ [][Next]_vars

InitH == IdleConvert /\ InitHead /\ IdleTags

NextHead ==
    \/ HeadRead /\ UNCHANGED <<cvars, tvars>>
    \/ HeadReadAfter /\ UNCHANGED <<cvars, tvars>>

SpecHead == InitH /\ [][NextHead]_vars

InitT == IdleConvert /\ IdleHead /\ InitTags

NextTags ==
    \/ TagsRead /\ UNCHANGED <<cvars, hvars>>
    \/ TagsReadAfter /\ UNCHANGED <<cvars, hvars>>

SpecTags == InitT /\ [][NextTags]_vars

----------------------------------------------------------------------------
(* Properties of convert(), checked under Spec *)

DataPackets == SubSeq(packets, 3, Len(packets))

IoErrors == {"read_packet", "add_packet", "write",
             "missing identification header packet",
             "missing comment header packet"}

\* C1: a successful convert appends exactly the data packets of the stream to
\* the writer, in their order and unaltered, never the two header packets,
\* and finalizes the data chunk once, after the last append.
C1_PacketsCopied ==
    pc = "ok" =>
        /\ writer.packets = DataPackets
        /\ calls = <<"new", "set_priming_frames">>
                     \o Fill(Len(packets) - 2, "add_packet")
                     \o <<"write_audio_data">>
        /\ writer.finalized = 1

C1_Witness ==
    /\ pc = "ok"
    /\ Len(packets) = 4
    /\ packets[3] # packets[4]
    /\ writer.packets = <<packets[3], packets[4]>>

\* C2, as claimed: whenever convert fails nothing has been written to the
\* sink, and on success the sink holds the complete container.
C2_AllOrNothing ==
    /\ pc = "err" => sink = <<>>
    /\ pc = "ok" => sink = Container(writer)

\* C2, amended: a failure before the writer is opened leaves the sink
\* untouched, and on success the sink holds the complete container.
C2_NothingWrittenBeforeOpen ==
    /\ (pc = "err" /\ calls = <<>>) => sink = <<>>
    /\ pc = "ok" => sink = Container(writer)

C2_Witness ==
    /\ pc = "err"
    /\ calls = <<>>
    /\ Len(packets) >= 3
    /\ err = UnexpectedEof
    /\ sinkFailAt = 0
    /\ sink = <<>>

\* C3: when the demuxer yields fewer than two packets, convert fails with
\* the missing-packet error of the packet that is absent, whatever the first
\* packet holds, and the writer is never opened and the sink never written.
C3_MissingPacket ==
    (Len(packets) < 2 /\ failAt \notin 1..(Len(packets) + 1)) =>
        /\ pc \in {"read_id", "read_comment", "err"}
        /\ calls = <<>>
        /\ writer = NoWriter
        /\ sink = <<>>
        /\ pc = "err" =>
             err = IF Len(packets) = 0
                   THEN "missing identification header packet"
                   ELSE "missing comment header packet"

C3_Witness ==
    /\ pc = "err"
    /\ Len(packets) = 1
    /\ failAt = 0
    /\ ~OpusHeadRead(packets[1]).ok
    /\ err = "missing comment header packet"

C6_AudioDescription ==
    pc \in {"open", "priming", "loop", "finalize", "ok"} =>
        /\ audio_description.sample_rate =
             (IF opus_head.input_sample_rate = 0
              THEN 48000 ELSE opus_head.input_sample_rate)
        /\ audio_description.channels_per_frame = opus_head.channel_count
        /\ audio_description.frames_per_packet = 960
        /\ audio_description.format_flags = 0
        /\ audio_description.bytes_per_packet = 0
        /\ audio_description.bits_per_channel = 0
        /\ writer # NoWriter => writer.description = audio_description

C6_Witness ==
    /\ pc = "ok"
    /\ opus_head.input_sample_rate = 0
    /\ writer.description.sample_rate = 48000

\* C7: the writer's priming-frame count is the header's pre_skip (bytes 10
\* and 11, little-endian, as a non-negative number), set by the call that
\* follows the opening of the writer and precedes every append.
C7_PrimingFrames ==
    /\ \A i \in 1..Len(calls) :
          /\ i = 1 => calls[i] = "new"
          /\ i = 2 => calls[i] = "set_priming_frames"
          /\ i > 2 => calls[i] \in {"add_packet", "write_audio_data"}
    /\ Len(calls) >= 2 =>
          /\ writer.priming_frames = opus_head.preskip
          /\ writer.priming_frames = packets[1][11] + 256 * packets[1][12]

C7_Witness ==
    /\ pc = "ok"
    /\ opus_head.preskip = 65535
    /\ writer.priming_frames = 65535
    /\ Len(writer.packets) >= 1

----------------------------------------------------------------------------
(* Properties of OpusHead::read, checked under SpecHead *)

\* C4, as claimed: with channel_mapping_family # 0 and the stream count, the
\* coupled count and one byte per channel present, the cursor ends
\* 19 + 2 + channel_count bytes past the start of the header.
C4_MappingSkipped ==
    (/\ h_pc # "start"
     /\ h_res.ok
     /\ h_res.val.channel_mapping_family # 0
     /\ Len(h_data) >= 21 + h_res.val.channel_count) =>
        h_res.cur = 21 + h_res.val.channel_count

\* C8: a well-formed 19-byte header with channel_mapping_family 0 is read
\* as the values its bytes encode, 19 bytes are consumed, and one more read
\* fails with end-of-data.
C8_HeadFields ==
    (/\ h_pc # "start"
     /\ Len(h_data) = 19
     /\ Bytes(h_data, 0, 8) = OpusHeadMagic
     /\ h_data[9] = 1
     /\ h_data[19] = 0) =>
        /\ h_res.ok
        /\ h_res.val.channel_count = h_data[10]
        /\ h_res.val.preskip = h_data[11] + 256 * h_data[12]
        /\ h_res.val.input_sample_rate =
             h_data[13] + 256 * h_data[14] + 65536 * h_data[15]
                 + 16777216 * h_data[16]
        /\ h_res.val.output_gain =
             (IF h_data[18] >= 128
              THEN h_data[17] + 256 * h_data[18] - 65536
              ELSE h_data[17] + 256 * h_data[18])
        /\ h_res.val.channel_mapping_family = 0
        /\ EncodeHead(h_res.val) = h_data
        /\ h_res.cur = 19
        /\ h_pc = "done" => h_next = UnexpectedEof

C8_Witness ==
    /\ h_pc = "done"
    /\ Len(h_data) = 19
    /\ h_res.val.output_gain < 0
    /\ h_res.val.preskip = 312
    /\ h_res.val.input_sample_rate = 48000
    /\ h_next = UnexpectedEof

\* C9, as claimed: every strict prefix of a well-formed header fails with
\* end-of-data.
C9_TruncatedFails ==
    (/\ h_pc # "start"
     /\ Len(h_data) < Len(h_full)
     /\ h_data = SubSeq(h_full, 1, Len(h_data))) =>
        /\ ~h_res.ok
        /\ h_res.err = UnexpectedEof

----------------------------------------------------------------------------
(* Properties of OpusTags::read, checked under SpecTags *)

\* C10: a well-formed comment block is read as the vendor string and the
\* comments that were encoded, in their order; exactly the bytes of the block
\* are consumed, and one more read fails when nothing follows the block.
C10_TagsRead ==
    (/\ t_pc # "start"
     /\ WellFormedTags(t_in)
     /\ Len(t_data) >= Len(t_full)
     /\ SubSeq(t_data, 1, Len(t_full)) = t_full) =>
        /\ t_res.ok
        /\ t_res.val.vendor_string = t_in.vendor_string
        /\ t_res.val.user_comments = t_in.user_comments
        /\ t_res.cur = Len(t_full)
        /\ (t_pc = "done" /\ t_data = t_full) => t_next = UnexpectedEof

C10_Witness ==
    /\ t_pc = "done"
    /\ t_data = t_full
    /\ t_res.val.vendor_string = <<195, 169>>
    /\ Len(t_res.val.user_comments) = 2
    /\ t_res.val.user_comments[1] # t_res.val.user_comments[2]
    /\ t_next = UnexpectedEof

====
